---- MODULE Spec2Model ----
(***************************************************************************)
(* Model of pkg/disk/utils.go of the Alibaba Cloud CSI disk plugin:        *)
(* credential resolution (GetLocalAK, GetSTSAK, GetDefaultAK), the ECS     *)
(* client wrapper (newEcsClient, updateEcsClent), the instance metadata    *)
(* lookup (GetMetaData), the volume option parser (getDiskVolumeOptions)   *)
(* and the process-wide keyed mutex attachdetachMutex.                     *)
(***************************************************************************)
EXTENDS Integers, Sequences, FiniteSets, TLC

VARIABLES
    \* --- credentials and ECS client ---
    env,         \* the process environment: ACCESS_KEY_ID, ACCESS_KEY_SECRET
    client,      \* the *ecs.Client the caller currently holds
    prevClient,  \* the client that was handed to the last updateEcsClent call
    nextSerial,  \* identity of the next client object the SDK allocates
    credOp,      \* the last credential operation that ran
    ak,          \* the triple the last GetDefaultAK call returned
    md,          \* what the metadata service answered during that call
    \* --- metadata lookup and volume option parser ---
    volOptions,  \* the option map given to getDiskVolumeOptions
    parsePc,     \* position of the parser's caller
    parseOut,    \* what getDiskVolumeOptions returned for volOptions
    calls,       \* the GetMetaData calls the last operation made
    reparseOut,  \* what getDiskVolumeOptions returned for the written-back map
    \* --- attach/detach keyed mutex ---
    pc,          \* position of each attach attempt
    want,        \* the (node, disk) key each attach attempt works on
    mutexMap     \* attachdetachMutex: key -> whether its mutex is locked

credVars  == <<env, client, prevClient, nextSerial, credOp, ak, md>>
parseVars == <<volOptions, parsePc, parseOut, calls, reparseOut>>
lockVars  == <<pc, want, mutexMap>>
vars      == <<credVars, parseVars, lockVars>>

-----------------------------------------------------------------------------
(* Bounds *)

\* number of client objects the SDK may allocate in one run
MaxBuilds == 3
\* number of concurrent attach attempts
MaxProcs == 3

-----------------------------------------------------------------------------
(* Credential resolution *)

\* values of ACCESS_KEY_ID / ACCESS_KEY_SECRET ("" = unset or empty)
EnvIds     == {"", "LTAI-env"}
EnvSecrets == {"", "secret-env"}

\* m.Role(): an error, or the role name
RoleOutcomes == {[err |-> TRUE, name |-> ""], [err |-> FALSE, name |-> "csi-role"]}

\* role tokens the metadata service may hand out (they rotate)
RoleTokens ==
    { [AccessKeyId |-> "STS.a", AccessKeySecret |-> "sts-secret-a", SecurityToken |-> "token-a"],
      [AccessKeyId |-> "STS.b", AccessKeySecret |-> "sts-secret-b", SecurityToken |-> "token-b"] }

NoRole == [AccessKeyId |-> "", AccessKeySecret |-> "", SecurityToken |-> ""]

\* m.RamRoleToken(rolename): an error, or a role token
TokenOutcomes ==
    {[err |-> TRUE, role |-> NoRole]} \cup {[err |-> FALSE, role |-> t] : t \in RoleTokens}

\* one answer of the metadata service to GetSTSAK
MetaOutcomes == [role : RoleOutcomes, token : TokenOutcomes]

Triple(id, secret, token) == [id |-> id, secret |-> secret, token |-> token]

GetLocalAK(e) ==
    [id |-> e.ACCESS_KEY_ID, secret |-> e.ACCESS_KEY_SECRET]

GetSTSAK(m) ==
    IF m.role.err THEN Triple("", "", "")
    ELSE IF m.token.err THEN Triple("", "", "")
    ELSE Triple(m.token.role.AccessKeyId, m.token.role.AccessKeySecret,
                m.token.role.SecurityToken)

\* bug variants of GetDefaultAK
GetDefaultAK_StsFirst(e, m) ==
    LET sts == GetSTSAK(m) IN
    IF sts.token # "" THEN sts
    ELSE Triple(GetLocalAK(e).id, GetLocalAK(e).secret, "")

GetDefaultAK_And(e, m) ==
    LET local == GetLocalAK(e) IN
    IF local.id = "" /\ local.secret = "" THEN GetSTSAK(m)
    ELSE Triple(local.id, local.secret, "")

GetDefaultAK_KeepEnv(e, m) ==
    LET local == GetLocalAK(e) IN
    IF local.id = "" \/ local.secret = ""
    THEN Triple(local.id, local.secret, GetSTSAK(m).token)
    ELSE Triple(local.id, local.secret, "")

GetDefaultAK(e, m) ==
    LET local == GetLocalAK(e) IN
    IF local.id = "" \/ local.secret = "" THEN GetSTSAK(m)
    ELSE Triple(local.id, local.secret, "")

-----------------------------------------------------------------------------
(* ECS client wrapper *)

NilClient == [kind |-> "nil", serial |-> 0, id |-> "", secret |-> "", token |-> ""]

\* newEcsClient: NewClientWithAccessKey when the token is empty, else
\* NewClientWithStsToken; nil when the SDK constructor reports an error.
newEcsClient(id, secret, token, sdkErr, serial) ==
    IF token = ""
    THEN IF sdkErr THEN NilClient
         ELSE [kind |-> "ak", serial |-> serial, id |-> id, secret |-> secret, token |-> ""]
    ELSE IF sdkErr THEN NilClient
         ELSE [kind |-> "sts", serial |-> serial, id |-> id, secret |-> secret, token |-> token]

\* bug variant: rebuilds whatever the resolved credentials are
updateEcsClent_Always(c, cred, sdkErr, serial) ==
    newEcsClient(cred.id, cred.secret, cred.token, sdkErr, serial)

\* updateEcsClent(client), with cred the triple its GetDefaultAK call returned
updateEcsClent(c, cred, sdkErr, serial) ==
    IF cred.token # ""
    THEN newEcsClient(cred.id, cred.secret, cred.token, sdkErr, serial)
    ELSE c

NoMeta == [role |-> [err |-> TRUE, name |-> ""], token |-> [err |-> TRUE, role |-> NoRole]]

\* a caller resolves credentials
Resolve ==
    \E m \in MetaOutcomes :
        /\ ak' = GetDefaultAK(env, m)
        /\ md' = m
        /\ credOp' = "resolve"
        /\ UNCHANGED <<env, client, prevClient, nextSerial>>

\* a caller builds its client from the resolved credentials
NewClient ==
    /\ nextSerial <= MaxBuilds
    /\ \E m \in MetaOutcomes, sdkErr \in BOOLEAN :
        LET cred == GetDefaultAK(env, m) IN
        /\ ak' = cred
        /\ md' = m
        /\ client' = newEcsClient(cred.id, cred.secret, cred.token, sdkErr, nextSerial)
        /\ prevClient' = client
        /\ nextSerial' = IF client'.serial = nextSerial THEN nextSerial + 1 ELSE nextSerial
        /\ credOp' = "new"
        /\ UNCHANGED env

\* a caller refreshes the client it holds
UpdateClient ==
    /\ nextSerial <= MaxBuilds
    /\ \E m \in MetaOutcomes, sdkErr \in BOOLEAN :
        LET cred == GetDefaultAK(env, m) IN
        /\ ak' = cred
        /\ md' = m
        /\ client' = updateEcsClent(client, cred, sdkErr, nextSerial)
        /\ prevClient' = client
        /\ nextSerial' = IF client'.serial = nextSerial THEN nextSerial + 1 ELSE nextSerial
        /\ credOp' = "update"
        /\ UNCHANGED env

-----------------------------------------------------------------------------
(* Instance metadata lookup *)

\* what http.Get(METADATA_URL + resource) and the read of its body can give:
\* a network-level error, or a response with a status and a body, whose read
\* may fail.
MetaValue(resource) ==
    IF resource = "zone-id" THEN "cn-hangzhou-b" ELSE "cn-hangzhou"

HttpOutcomes(resource) ==
    {[err |-> TRUE, status |-> 0, readErr |-> FALSE, body |-> ""]}
    \cup [err : {FALSE}, status : {200}, readErr : BOOLEAN, body : {MetaValue(resource)}]
    \cup [err : {FALSE}, status : {404}, readErr : BOOLEAN, body : {"404 Not Found"}]

GetMetaData(h) ==
    IF h.err THEN ""
    ELSE IF h.readErr THEN ""
    ELSE h.body

-----------------------------------------------------------------------------
(* Volume option parser *)

DISK_HIGH_AVAIL == "available"
DISK_COMMON     == "cloud"
DISK_EFFICIENCY == "cloud_efficiency"
DISK_SSD        == "cloud_ssd"

\* option values are strings; those of readOnly and encrypted are sequences
\* of characters, so that strings.ToLower acts on them character by character
LowerChar(c) ==
    CASE c = "A" -> "a" [] c = "E" -> "e" [] c = "N" -> "n" [] c = "O" -> "o"
      [] c = "R" -> "r" [] c = "S" -> "s" [] c = "T" -> "t" [] c = "U" -> "u"
      [] c = "Y" -> "y" [] OTHER -> c

ToLower(s) == [i \in 1..Len(s) |-> LowerChar(s[i])]

\* bug variant: the comparison is case-sensitive
IsTrue_CaseSensitive(value) ==
    value = <<"y", "e", "s">> \/ value = <<"t", "r", "u", "e">> \/ value = <<"1">>

IsTrue(value) ==
    LET v == ToLower(value) IN
    v = <<"y", "e", "s">> \/ v = <<"t", "r", "u", "e">> \/ v = <<"1">>

BoolOption(opts, key) ==
    IF key \notin DOMAIN opts THEN FALSE ELSE IsTrue(opts[key])

ValidFsType(f) == ~(f # "ext4" /\ f # "ext3")

\* bug variant: any non-empty disk type passes
ValidType_Lax(t) == t # ""

ValidType(t) ==
    ~(t # DISK_HIGH_AVAIL /\ t # DISK_COMMON /\ t # DISK_EFFICIENCY /\ t # DISK_SSD)

\* bug variant: the metadata lookup replaces an empty value, not an absent one
OptionOrMeta_WhenEmpty(opts, key, meta) ==
    IF key \in DOMAIN opts /\ opts[key] # "" THEN opts[key] ELSE meta

\* volOptions[key], or the metadata value when the key is absent
OptionOrMeta(opts, key, meta) ==
    IF key \in DOMAIN opts THEN opts[key] ELSE meta

OptionOrDefault(opts, key, default) ==
    IF key \in DOMAIN opts THEN opts[key] ELSE default

NilArgs ==
    [nil |-> TRUE, ZoneId |-> "", RegionId |-> "", FsType |-> "", Type |-> "",
     ReadOnly |-> FALSE, Encrypted |-> FALSE]

\* getDiskVolumeOptions(volOptions), with zoneMeta and regionMeta what
\* GetMetaData(ZONEID_TAG) and GetMetaData(REGIONID_TAG) return when called
getDiskVolumeOptions(opts, zoneMeta, regionMeta) ==
    LET zone   == OptionOrMeta(opts, "zoneId", zoneMeta)
        region == OptionOrMeta(opts, "regionId", regionMeta)
        fs     == OptionOrDefault(opts, "fsType", "ext4")
        type   == OptionOrDefault(opts, "type", DISK_HIGH_AVAIL)
    IN  IF ~ValidFsType(fs)
        THEN [err |-> "illegal required parameter fsType", args |-> NilArgs]
        ELSE IF ~ValidType(type)
        THEN [err |-> "Illegal required parameter type", args |-> NilArgs]
        ELSE [err |-> "",
              args |-> [nil |-> FALSE, ZoneId |-> zone, RegionId |-> region,
                        FsType |-> fs, Type |-> type,
                        ReadOnly |-> BoolOption(opts, "readOnly"),
                        Encrypted |-> BoolOption(opts, "encrypted")]]

\* the GetMetaData calls getDiskVolumeOptions makes for opts
MetaCalls(opts, hz, hr) ==
    (IF "zoneId" \in DOMAIN opts THEN <<>>
     ELSE << [resource |-> "zone-id", resp |-> hz, ret |-> GetMetaData(hz)] >>)
    \o
    (IF "regionId" \in DOMAIN opts THEN <<>>
     ELSE << [resource |-> "region-id", resp |-> hr, ret |-> GetMetaData(hr)] >>)

\* option maps given by callers; Absent marks a key the map does not hold
Absent    == "<absent>"
AbsentSeq == <<"<absent>">>
ZoneIn    == {Absent, "", "cn-beijing-a"}
RegionIn  == {Absent, "", "cn-beijing"}
FsTypeIn  == {Absent, "ext4", "ext3", "xfs", "", "EXT4"}
TypeIn    == {Absent, "available", "cloud", "cloud_efficiency", "cloud_ssd",
              "cloud_unknown", ""}
ReadOnlyIn  == {AbsentSeq, <<"y", "e", "s">>, <<"T", "R", "U", "E">>, <<"1">>,
                <<"Y", "e", "s">>, <<"n", "o">>, <<>>}
EncryptedIn == {AbsentSeq, <<"t", "r", "u", "e">>, <<"Y", "E", "S">>, <<"1">>,
                <<"f", "a", "l", "s", "e">>}

MkOptions(z, r, f, t, ro, en) ==
    LET all == [zoneId |-> z, regionId |-> r, fsType |-> f, type |-> t,
                readOnly |-> ro, encrypted |-> en]
        dom == {k \in DOMAIN all : all[k] # (IF k \in {"readOnly", "encrypted"}
                                             THEN AbsentSeq ELSE Absent)}
    IN  [k \in dom |-> all[k]]

OptionMaps ==
    {MkOptions(z, r, f, t, ro, en) :
        z \in ZoneIn, r \in RegionIn, f \in FsTypeIn, t \in TypeIn,
        ro \in ReadOnlyIn, en \in EncryptedIn}

NoResult == [err |-> "not called", args |-> NilArgs]

\* a caller parses its option map
Parse ==
    /\ parsePc = "input"
    /\ \E hz \in HttpOutcomes("zone-id"), hr \in HttpOutcomes("region-id") :
        /\ parseOut' = getDiskVolumeOptions(volOptions, GetMetaData(hz), GetMetaData(hr))
        /\ calls' = MetaCalls(volOptions, hz, hr)
    /\ parsePc' = "parsed"
    /\ UNCHANGED <<volOptions, reparseOut>>

\* the canonical string form of a boolean field
FormatBool(b) ==
    IF b THEN <<"t", "r", "u", "e">> ELSE <<"f", "a", "l", "s", "e">>

\* a VolumeRequest written back as an option map
Canonical(args) ==
    [zoneId |-> args.ZoneId, regionId |-> args.RegionId, fsType |-> args.FsType,
     type |-> args.Type, readOnly |-> FormatBool(args.ReadOnly),
     encrypted |-> FormatBool(args.Encrypted)]

\* a caller writes the accepted request back as an option map and parses it
Reparse ==
    /\ parsePc = "parsed"
    /\ parseOut.err = ""
    /\ \E hz \in HttpOutcomes("zone-id"), hr \in HttpOutcomes("region-id") :
        /\ reparseOut' = getDiskVolumeOptions(Canonical(parseOut.args),
                                              GetMetaData(hz), GetMetaData(hr))
        /\ calls' = MetaCalls(Canonical(parseOut.args), hz, hr)
    /\ parsePc' = "reparsed"
    /\ UNCHANGED <<volOptions, parseOut>>

-----------------------------------------------------------------------------
(* attachdetachMutex: the keyed mutex around the control-plane attach call *)

Procs == 1..MaxProcs
Keys  == {"i-abc/d-123", "i-abc/d-456"}

\* bug variant: the lock is granted whether or not it is held
CanLock_Always(k) == TRUE

\* LockKey(k) returns only once the mutex of k is free
CanLock(k) == ~mutexMap[k]

\* an attach request for key k arrives and calls LockKey(k)
Request(p, k) ==
    /\ pc[p] = "idle"
    /\ pc' = [pc EXCEPT ![p] = "waiting"]
    /\ want' = [want EXCEPT ![p] = k]
    /\ UNCHANGED mutexMap

\* LockKey returns: the attempt holds the lock and calls the control plane
LockKey(p) ==
    /\ pc[p] = "waiting"
    /\ CanLock(want[p])
    /\ mutexMap' = [mutexMap EXCEPT ![want[p]] = TRUE]
    /\ pc' = [pc EXCEPT ![p] = "attaching"]
    /\ UNCHANGED want

\* the control-plane call returns and the attempt calls UnlockKey
UnlockKey(p) ==
    /\ pc[p] = "attaching"
    /\ mutexMap' = [mutexMap EXCEPT ![want[p]] = FALSE]
    /\ pc' = [pc EXCEPT ![p] = "done"]
    /\ UNCHANGED want

\* the attempt returns to its caller
Return(p) ==
    /\ pc[p] = "done"
    /\ pc' = [pc EXCEPT ![p] = "idle"]
    /\ UNCHANGED <<want, mutexMap>>

-----------------------------------------------------------------------------
(* Specifications *)

CredNext ==
    \/ Resolve /\ UNCHANGED <<parseVars, lockVars>>
    \/ NewClient /\ UNCHANGED <<parseVars, lockVars>>
    \/ UpdateClient /\ UNCHANGED <<parseVars, lockVars>>

ParseNext ==
    \/ Parse /\ UNCHANGED <<credVars, lockVars>>
    \/ Reparse /\ UNCHANGED <<credVars, lockVars>>

LockNext ==
    \E p \in Procs :
        \/ (\E k \in Keys : Request(p, k)) /\ UNCHANGED <<credVars, parseVars>>
        \/ LockKey(p) /\ UNCHANGED <<credVars, parseVars>>
        \/ UnlockKey(p) /\ UNCHANGED <<credVars, parseVars>>
        \/ Return(p) /\ UNCHANGED <<credVars, parseVars>>

\* the process starts with its environment set; no attach attempt, no parse
CredInit ==
    /\ env \in [ACCESS_KEY_ID : EnvIds, ACCESS_KEY_SECRET : EnvSecrets]
    /\ client = NilClient /\ prevClient = NilClient /\ nextSerial = 1
    /\ credOp = "none" /\ ak = Triple("", "", "") /\ md = NoMeta
    /\ volOptions = MkOptions(Absent, Absent, Absent, Absent, AbsentSeq, AbsentSeq)
    /\ parsePc = "idle" /\ parseOut = NoResult /\ calls = <<>>
    /\ reparseOut = NoResult
    /\ pc = [p \in Procs |-> "idle"]
    /\ want = [p \in Procs |-> "i-abc/d-123"]
    /\ mutexMap = [k \in Keys |-> FALSE]

\* a caller is about to parse an option map; nothing else runs
ParseInit ==
    /\ env = [ACCESS_KEY_ID |-> "", ACCESS_KEY_SECRET |-> ""]
    /\ client = NilClient /\ prevClient = NilClient /\ nextSerial = 1
    /\ credOp = "none" /\ ak = Triple("", "", "") /\ md = NoMeta
    /\ volOptions \in OptionMaps
    /\ parsePc = "input" /\ parseOut = NoResult /\ calls = <<>>
    /\ reparseOut = NoResult
    /\ pc = [p \in Procs |-> "idle"]
    /\ want = [p \in Procs |-> "i-abc/d-123"]
    /\ mutexMap = [k \in Keys |-> FALSE]

\* attachdetachMutex is empty and every attach attempt is idle
LockInit ==
    /\ env = [ACCESS_KEY_ID |-> "", ACCESS_KEY_SECRET |-> ""]
    /\ client = NilClient /\ prevClient = NilClient /\ nextSerial = 1
    /\ credOp = "none" /\ ak = Triple("", "", "") /\ md = NoMeta
    /\ volOptions = MkOptions(Absent, Absent, Absent, Absent, AbsentSeq, AbsentSeq)
    /\ parsePc = "idle" /\ parseOut = NoResult /\ calls = <<>>
    /\ reparseOut = NoResult
    /\ pc = [p \in Procs |-> "idle"]
    /\ want = [p \in Procs |-> "i-abc/d-123"]
    /\ mutexMap = [k \in Keys |-> FALSE]

\* credential resolution and client refresh
SpecCred == CredInit /\ [][CredNext]_vars

\* metadata lookup and option parsing
SpecParse == ParseInit /\ [][ParseNext]_vars

\* concurrent attach attempts around attachdetachMutex
SpecLock == LockInit /\ [][LockNext]_vars

-----------------------------------------------------------------------------
(* Properties *)

EnvComplete == env.ACCESS_KEY_ID # "" /\ env.ACCESS_KEY_SECRET # ""
MetaOk      == ~md.role.err /\ ~md.token.err

\* C1: no two attach attempts working on the same (node, disk) key are inside
\* the control-plane call at the same time.
C1_MutualExclusion ==
    \A p, q \in Procs :
        (p # q /\ pc[p] = "attaching" /\ pc[q] = "attaching") => want[p] # want[q]

\* one attempt is in the control-plane call while another waits for the same
\* key and a third is in the call for a different key
C1_Witness ==
    \E p, q, r \in Procs :
        /\ pc[p] = "attaching" /\ pc[q] = "waiting" /\ want[q] = want[p]
        /\ pc[r] = "attaching" /\ want[r] # want[p]

\* C2: when ACCESS_KEY_ID and ACCESS_KEY_SECRET are both non-empty,
\* GetDefaultAK returns exactly these two values and an empty session token,
\* whatever the metadata service answers.
C2_EnvPreferred ==
    (credOp # "none" /\ EnvComplete) =>
        ak = Triple(env.ACCESS_KEY_ID, env.ACCESS_KEY_SECRET, "")

C2_Witness ==
    credOp = "resolve" /\ EnvComplete /\ MetaOk /\ ak.id = "LTAI-env"

\* C3: when the static pair is incomplete and the metadata service gives a
\* role name and a role token, GetDefaultAK returns the token's key id, secret
\* and non-empty security token, and no environment value.
C3_StsFallback ==
    (credOp # "none" /\ ~EnvComplete /\ MetaOk) =>
        /\ ak = Triple(md.token.role.AccessKeyId, md.token.role.AccessKeySecret,
                       md.token.role.SecurityToken)
        /\ ak.token # ""
        /\ env.ACCESS_KEY_ID # "" => ak.id # env.ACCESS_KEY_ID
        /\ env.ACCESS_KEY_SECRET # "" => ak.secret # env.ACCESS_KEY_SECRET

C3_Witness ==
    /\ credOp = "resolve" /\ MetaOk
    /\ env.ACCESS_KEY_ID = "LTAI-env" /\ env.ACCESS_KEY_SECRET = ""
    /\ ak.token = "token-b"

\* C4: an option map whose fsType, when given, is not ext3 or ext4, or whose
\* type, when given, is not one of the four disk categories, is rejected with
\* an error and a nil request.
C4_InvalidRejected ==
    (/\ parsePc # "input"
     /\ \/ ("fsType" \in DOMAIN volOptions /\ volOptions["fsType"] \notin {"ext3", "ext4"})
        \/ ("type" \in DOMAIN volOptions
            /\ volOptions["type"] \notin {"available", "cloud", "cloud_efficiency", "cloud_ssd"}))
    => (parseOut.err # "" /\ parseOut.args = NilArgs)

C4_Witness ==
    /\ parsePc = "parsed"
    /\ "type" \in DOMAIN volOptions /\ volOptions["type"] = "cloud_unknown"
    /\ "fsType" \in DOMAIN volOptions /\ volOptions["fsType"] = "ext4"
    /\ parseOut.err # "" /\ parseOut.args.nil

StaticClient(c) == c.kind = "ak" /\ c.id # "" /\ c.secret # ""

\* C5 as stated: updateEcsClent rebuilds the client whenever the client it is
\* given carries a session token, and returns a client built from static keys
\* unchanged.
C5_Original ==
    credOp = "update" =>
        /\ prevClient.token # "" => client # prevClient
        /\ StaticClient(prevClient) => client = prevClient

\* C5 amended: updateEcsClent rebuilds the client exactly when the credentials
\* it has just re-resolved carry a session token, and returns the given client
\* unchanged otherwise; a client built from the static pair is never replaced.
C5_RefreshOnResolvedToken ==
    credOp = "update" =>
        /\ ak.token # "" =>
              \/ client = NilClient
              \/ /\ client = [kind |-> "sts", serial |-> client.serial, id |-> ak.id,
                              secret |-> ak.secret, token |-> ak.token]
                 /\ client.serial # prevClient.serial
        /\ ak.token = "" => client = prevClient
        /\ StaticClient(prevClient) => client = prevClient

\* a token-based client is replaced by one built from a rotated token
C5_Witness ==
    /\ credOp = "update"
    /\ prevClient.kind = "sts" /\ client.kind = "sts"
    /\ client.serial # prevClient.serial /\ client.token # prevClient.token

\* C6 as stated: every request getDiskVolumeOptions returns has a non-empty
\* zone and a non-empty region.
C6_ZoneRegionNeverEmpty ==
    (parsePc # "input" /\ parseOut.err = "") =>
        (parseOut.args.ZoneId # "" /\ parseOut.args.RegionId # "")

\* C7: writing an accepted request back as an option map and parsing that map
\* yields the same request, and the second parse makes no metadata lookup.
C7_ParseIdempotent ==
    parsePc = "reparsed" =>
        /\ reparseOut.err = ""
        /\ reparseOut.args = parseOut.args
        /\ calls = <<>>

\* the first parse took its zone from a failed metadata lookup and read
\* readOnly from an upper-case spelling
C7_Witness ==
    /\ parsePc = "reparsed"
    /\ "zoneId" \notin DOMAIN volOptions /\ parseOut.args.ZoneId = ""
    /\ "regionId" \notin DOMAIN volOptions /\ parseOut.args.RegionId = "cn-hangzhou"
    /\ "readOnly" \in DOMAIN volOptions /\ volOptions["readOnly"] = <<"T", "R", "U", "E">>
    /\ reparseOut.args.ReadOnly

\* the spellings of yes, true and 1 among the option values, in any case
TrueSpellings ==
    { <<"y", "e", "s">>, <<"Y", "e", "s">>, <<"Y", "E", "S">>,
      <<"t", "r", "u", "e">>, <<"T", "R", "U", "E">>, <<"1">> }

\* C8: readOnly and encrypted are true exactly when their own option is
\* present and spells yes, true or 1 in any case; any other value, or none,
\* gives false and raises no error.
C8_BooleanOptions ==
    parsePc # "input" =>
        /\ parseOut.err = "" <=>
              /\ ("fsType" \in DOMAIN volOptions => volOptions["fsType"] \in {"ext3", "ext4"})
              /\ ("type" \in DOMAIN volOptions =>
                    volOptions["type"] \in {"available", "cloud", "cloud_efficiency", "cloud_ssd"})
        /\ parseOut.err = "" =>
              /\ parseOut.args.ReadOnly <=>
                    ("readOnly" \in DOMAIN volOptions
                     /\ volOptions["readOnly"] \in TrueSpellings)
              /\ parseOut.args.Encrypted <=>
                    ("encrypted" \in DOMAIN volOptions
                     /\ volOptions["encrypted"] \in TrueSpellings)

C8_Witness ==
    /\ parsePc = "parsed" /\ parseOut.err = ""
    /\ "readOnly" \in DOMAIN volOptions /\ volOptions["readOnly"] = <<"Y", "e", "s">>
    /\ "encrypted" \in DOMAIN volOptions
    /\ volOptions["encrypted"] = <<"f", "a", "l", "s", "e">>
    /\ parseOut.args.ReadOnly /\ ~parseOut.args.Encrypted

\* C9 as stated: GetMetaData returns the empty string on a network failure and
\* on a non-200 answer, and the body only for a 200 answer.
C9_EmptyUnlessOk ==
    \A i \in 1..Len(calls) :
        /\ (calls[i].resp.err \/ calls[i].resp.status # 200) => calls[i].ret = ""
        /\ calls[i].ret # "" => (~calls[i].resp.err /\ calls[i].resp.status = 200)

\* C10: GetDefaultAK always returns a triple, and when the static pair is
\* incomplete and the role or the token lookup fails, all three parts of it
\* are empty.
C10_EmptyOnTotalFailure ==
    /\ ak \in [id : STRING, secret : STRING, token : STRING]
    /\ (credOp # "none" /\ ~EnvComplete /\ ~MetaOk) => ak = Triple("", "", "")

C10_Witness ==
    /\ credOp = "resolve"
    /\ env.ACCESS_KEY_ID = "LTAI-env" /\ env.ACCESS_KEY_SECRET = ""
    /\ ~md.role.err /\ md.token.err
    /\ ak = Triple("", "", "")

====
